---- MODULE Spec2Model ----
(***************************************************************************)
(* Model of package adf (src/adf.go): the Augmented Dickey-Fuller test.    *)
(*                                                                         *)
(* State: the memory holding the caller's slice and the slice NewADF       *)
(* allocates, the ADF struct, the matrices the last Run built, the ridge   *)
(* solver seen as an unknown deterministic function, and the last call.    *)
(*                                                                         *)
(* float64 is modelled as a binary floating-point format with Prec         *)
(* significant bits and round-to-nearest-even: a value is an integer       *)
(* count of the smallest unit (1.0 is 8 units), and it is representable    *)
(* when it is m * 2^e with |m| < 2^Prec.  Thresholds and statistics are    *)
(* integers counting hundredths (-3.45 is -345).                           *)
(***************************************************************************)
EXTENDS Integers, Sequences, FiniteSets, TLC

VARIABLES
    mem,     \* backing arrays: mem[CallerAddr] the caller's slice, mem[OwnAddr] the one NewADF makes
    adf,     \* the ADF struct; Series is the address of its backing array (0: nil)
    call,    \* the arguments NewADF was called with
    run,     \* the locals of the last Run: mean, n, k, y, z, xt1, design, regressY
    solver,  \* the ridge solver's answers so far, by input
    last     \* the last call and, for IsStationary, what it returned

vars == <<mem, adf, call, run, solver, last>>

----------------------------------------------------------------------------
(* Bounds of the model *)

Prec == 3
FullLen == 3
MaxLen == 8
MaxWriteIdx == 2

(* Program constants *)

DefaultPValue == -345
LPenalty == 1

(* Inputs *)

Vals == {0, 8, 16}
PValues == {0, -400, 50}
WriteVals == {4}
Lags == {-2, -1, 0, 1, 2}
StatVals == {-400, -345}

LongSeries(n) == [i \in 1..n |-> (i % 3) * 8]

SeriesInputs ==
    UNION {[1..n -> Vals] : n \in 0..FullLen}
    \cup {LongSeries(n) : n \in (FullLen + 1)..MaxLen}

CallerAddr == 1
OwnAddr == 2

----------------------------------------------------------------------------
(* float64 arithmetic, rounded to Prec significant bits *)

Abs(x) == IF x < 0 THEN -x ELSE x

RECURSIVE Pow2(_)
Pow2(e) == IF e = 0 THEN 1 ELSE 2 * Pow2(e - 1)

RECURSIVE Ulp(_, _, _)
Ulp(a, den, u) == IF a < Pow2(Prec) * u * den THEN u ELSE Ulp(a, den, 2 * u)

Round(num, den) ==
    LET a == Abs(num)
        u == Ulp(a, den, 1)
        q == a \div (den * u)
        rem == a - q * den * u
        up == \/ 2 * rem > den * u
              \/ (2 * rem = den * u /\ q % 2 = 1)
        m == IF up THEN q + 1 ELSE q
    IN  IF num < 0 THEN -(m * u) ELSE m * u

FSub(a, b) == Round(a - b, 1)

RECURSIVE FSum(_, _, _)
FSum(s, i, acc) ==
    IF i > Len(s) THEN acc ELSE FSum(s, i + 1, Round(acc + s[i], 1))

(* stat.Mean(s, nil): the sum divided by the length; 0/0 is NaN for an *)
(* empty slice.                                                         *)
Mean(s) ==
    IF Len(s) = 0
    THEN [nan |-> TRUE, v |-> 0]
    ELSE [nan |-> FALSE, v |-> Round(FSum(s, 1, 0), Len(s))]

(* mean != 0.0, which is true of NaN *)
NonZero(m) == m.nan \/ m.v # 0

----------------------------------------------------------------------------
(* NewADF *)

(* Faulty variant: the default also replaces negative thresholds *)
NormPValueBug(pvalue) == IF pvalue <= 0 THEN DefaultPValue ELSE pvalue

NormPValue(pvalue) == IF pvalue = 0 THEN DefaultPValue ELSE pvalue

RECURSIVE CbrtFrom(_, _)
CbrtFrom(n, c) ==
    IF (c + 1) * (c + 1) * (c + 1) > n THEN c ELSE CbrtFrom(n, c + 1)

(* Faulty variant: the cube root rounded up *)
CeilCbrtBug(n) ==
    LET c == CbrtFrom(n, 0)
    IN  IF c * c * c = n THEN c ELSE c + 1

FloorCbrt(n) == CbrtFrom(n, 0)

(* Faulty variant: a lag of 0 is taken for "no lag given" too *)
NormLagBug(lag, n) == IF lag <= 0 THEN CbrtFrom(n, 0) ELSE lag

NormLag(lag, n) == IF lag < 0 THEN FloorCbrt(n) ELSE lag

(* Faulty variant: the struct keeps the caller's slice *)
NewSeriesBug(m, src) == [addr |-> src, mem |-> m]

(* make + copy: a fresh backing array at OwnAddr holding the elements of *)
(* the slice at src.  The result is the Series address and the memory.   *)
NewSeries(m, src) ==
    [addr |-> OwnAddr, mem |-> [m EXCEPT ![OwnAddr] = m[src]]]

NewADF(m, src, pvalue, lag) ==
    LET ns == NewSeries(m, src)
    IN  [mem |-> ns.mem,
         adf |-> [Series |-> ns.addr,
                  PValueThreshold |-> NormPValue(pvalue),
                  Statistic |-> 0,
                  Lag |-> NormLag(lag, Len(m[src]))]]

----------------------------------------------------------------------------
(* Helpers of Run *)

(* Faulty variant: the subtraction the wrong way round *)
CentreBug(s) ==
    LET mean == Mean(s)
    IN  IF NonZero(mean)
        THEN [i \in 1..Len(s) |-> FSub(mean.v, s[i])]
        ELSE s

Centre(s) ==
    LET mean == Mean(s)
    IN  IF NonZero(mean)
        THEN [i \in 1..Len(s) |-> FSub(s[i], mean.v)]
        ELSE s

(* make([]float64, n) panics for n < 0 *)
MakeOK(n) == n >= 0

(* Faulty variant: the difference the wrong way round *)
diffBug(x) == [i \in 1..(Len(x) - 1) |-> FSub(x[i], x[i + 1])]

diff(x) == [i \in 1..(Len(x) - 1) |-> FSub(x[i + 1], x[i])]

(* mat.NewDense panics when a dimension is zero or negative *)
NewDenseOK(r, c) == r > 0 /\ c > 0

(* x[idx] of a Go slice, 0-based; idx must lie in 0..len(x)-1 *)
InRange(x, idx) == 0 <= idx /\ idx < Len(x)

Elem(x, idx) == x[idx + 1]

(* The cells of an r x c matrix, 0-based *)
Cells(r, c) == (0..(r - 1)) \X (0..(c - 1))

(* Faulty variant: the index one too far *)
LagIndexBug(lag, i, j) == lag - j + i

LagIndex(lag, i, j) == lag - j - 1 + i

laggedMatrixOK(series, lag) ==
    LET r == Len(series) - lag + 1
        c == lag
    IN  /\ NewDenseOK(r, c)
        /\ \A j \in 0..(c - 1) : \A i \in 0..(r - 1) :
               InRange(series, LagIndex(lag, i, j))

laggedMatrix(series, lag) ==
    LET r == Len(series) - lag + 1
        c == lag
    IN  [r |-> r, c |-> c,
         at |-> [p \in Cells(r, c) |-> Elem(series, LagIndex(lag, p[1], p[2]))]]

(* mat.Col(nil, j, m): column j as a slice *)
Col(j, m) == [i \in 1..m.r |-> m.at[<<i - 1, j>>]]

(* series[lo:hi] *)
SliceOK(x, lo, hi) == 0 <= lo /\ lo <= hi /\ hi <= Len(x)

SliceOf(x, lo, hi) == [i \in 1..(hi - lo) |-> x[lo + i]]

(* m.Slice(i, i+r, j, j+c) *)
viewOK(m, i, j, r, c) ==
    /\ 0 <= i /\ i < m.r /\ 0 <= j /\ j < m.c
    /\ i < i + r /\ i + r <= m.r /\ j < j + c /\ j + c <= m.c

(* Faulty variant: the view starts at the response column *)
ViewCol0Bug == 1 - 1

ViewCol0 == 1

view(m, i, j, r, c) ==
    [r |-> r, c |-> c, at |-> [p \in Cells(r, c) |-> m.at[<<i + p[1], j + p[2]>>]]]

(* design.SetCol(j, src) panics unless len(src) is the row count *)
SetColOK(m, j, src) == 0 <= j /\ j < m.c /\ Len(src) = m.r

SetCol(m, j, src) ==
    [m EXCEPT !.at = [p \in DOMAIN m.at |->
                         IF p[2] = j THEN src[p[1] + 1] ELSE m.at[p]]]

Zeros(r, c) == [r |-> r, c |-> c, at |-> [p \in Cells(r, c) |-> 0]]

RECURSIVE SetCols(_, _, _, _)
SetCols(design, yt1, i, c) ==
    IF i >= c THEN design
    ELSE SetCols(SetCol(design, 1 + i, Col(i, yt1)), yt1, i + 1, c)

EmptyMat == [r |-> 0, c |-> 0, at |-> <<>>]

NoRun ==
    [outcome |-> "none", mean |-> [nan |-> FALSE, v |-> 0],
     n |-> 0, k |-> 0, y |-> <<>>, z |-> EmptyMat,
     xt1 |-> <<>>, design |-> EmptyMat, regressY |-> <<>>]

Panic(site, n, k, y) ==
    [NoRun EXCEPT !.outcome = site, !.n = n, !.k = k, !.y = y]

(* Faulty variant: n is the length of the series, not of its difference *)
RowsNBug(series) == Len(series)

RowsN(series) == Len(series) - 1

(* Lines 53-82 of Run on the centred series: the matrices it builds, or *)
(* the place where it panics.                                            *)
Assemble(series, lag) ==
    IF ~MakeOK(Len(series) - 1)
    THEN Panic("panic:diff", RowsN(series), lag + 1, <<>>) ELSE
    LET n == RowsN(series)
        y == diff(series)
        k == lag + 1
    IN  IF ~laggedMatrixOK(y, k) THEN Panic("panic:laggedMatrix", n, k, y) ELSE
    LET z == laggedMatrix(y, k)
        zcol1 == Col(0, z)
    IN  IF ~SliceOK(series, k - 1, n) THEN Panic("panic:slice", n, k, y) ELSE
    LET xt1 == SliceOf(series, k - 1, n)
        r == z.r
        c == z.c
    IN  IF k > 1 /\ ~viewOK(z, 0, ViewCol0, r, c - 1)
        THEN Panic("panic:view", n, k, y) ELSE
        IF ~NewDenseOK(n - k + 1, k) THEN Panic("panic:design", n, k, y) ELSE
        IF ~SetColOK(Zeros(n - k + 1, k), 0, xt1)
        THEN Panic("panic:SetCol", n, k, y) ELSE
        IF k > 1 /\ \E i \in 0..(c - 2) :
                        ~SetColOK(Zeros(n - k + 1, k), 1 + i,
                                  Col(i, view(z, 0, ViewCol0, r, c - 1)))
        THEN Panic("panic:SetCol", n, k, y) ELSE
    LET d0 == SetCol(Zeros(n - k + 1, k), 0, xt1)
        design == IF k > 1
                  THEN LET yt1 == view(z, 0, ViewCol0, r, c - 1)
                       IN  SetCols(d0, yt1, 0, yt1.c)
                  ELSE d0
    IN  [NoRun EXCEPT !.outcome = "ok", !.n = n, !.k = k, !.y = y, !.z = z,
                      !.xt1 = xt1, !.design = design, !.regressY = zcol1]

(* Faulty variant: a non-strict comparison *)
IsStationaryRetBug(a) == a.Statistic <= a.PValueThreshold

IsStationaryRet(a) == a.Statistic < a.PValueThreshold

----------------------------------------------------------------------------
(* The state machine *)

ZeroADF == [Series |-> 0, PValueThreshold |-> 0, Statistic |-> 0, Lag |-> 0]

Constructed == adf.Series # 0

Init ==
    /\ \E s \in SeriesInputs : mem = [a \in {CallerAddr, OwnAddr} |->
                                         IF a = CallerAddr THEN s ELSE <<>>]
    /\ adf = ZeroADF
    /\ call = [pvalue |-> 0, lag |-> 0]
    /\ run = NoRun
    /\ solver = <<>>
    /\ last = [op |-> "none", ret |-> FALSE]

(* adf := NewADF(series, pvalue, lag) *)
Construct(pvalue, lag) ==
    /\ ~Constructed
    /\ LET new == NewADF(mem, CallerAddr, pvalue, lag)
       IN  /\ mem' = new.mem
           /\ adf' = new.adf
    /\ call' = [pvalue |-> pvalue, lag |-> lag]
    /\ last' = [op |-> "NewADF", ret |-> FALSE]
    /\ UNCHANGED <<run, solver>>

(* The caller writes series[i] = v on its own slice *)
CallerWrite(i, v) ==
    /\ Constructed
    /\ i \in 1..Len(mem[CallerAddr])
    /\ mem' = [mem EXCEPT ![CallerAddr][i] = v]
    /\ last' = [op |-> "write", ret |-> FALSE]
    /\ UNCHANGED <<adf, call, run, solver>>

(* The ridge solver's answer beta[0] / sd[0] for one input: an unknown *)
(* function of the design, the response and the penalty, the same on   *)
(* every call with the same input.                                      *)
RidgeInput(design, regressY) == <<design, regressY, LPenalty>>

RidgeAnswers(memo, in) ==
    IF in \in DOMAIN memo THEN {memo[in]} ELSE StatVals

(* adf.Run() *)
Run ==
    /\ Constructed
    /\ LET a == adf.Series
           series == Centre(mem[a])
           res == [Assemble(series, adf.Lag) EXCEPT !.mean = Mean(mem[a])]
       IN  /\ mem' = [mem EXCEPT ![a] = series]
           /\ run' = res
           /\ IF res.outcome = "ok"
              THEN LET in == RidgeInput(res.design, res.regressY)
                   IN  \E t \in RidgeAnswers(solver, in) :
                           /\ adf' = [adf EXCEPT !.Statistic = t]
                           /\ solver' = (in :> t) @@ solver
              ELSE UNCHANGED <<adf, solver>>
    /\ last' = [op |-> "Run", ret |-> FALSE]
    /\ UNCHANGED call

(* adf.IsStationary() *)
IsStationary ==
    /\ Constructed
    /\ last' = [op |-> "IsStationary", ret |-> IsStationaryRet(adf)]
    /\ UNCHANGED <<mem, adf, call, run, solver>>

Next ==
    \/ \E pvalue \in PValues, lag \in Lags : Construct(pvalue, lag)
    \/ \E i \in 1..MaxWriteIdx, v \in WriteVals : CallerWrite(i, v)
    \/ Run
    \/ IsStationary

Spec == Init /\ [][Next]_vars

----------------------------------------------------------------------------
(* Properties *)

Series == mem[adf.Series]

CallerSeries == mem[CallerAddr]

IsRunStep == last'.op = "Run"

NoWriteYet == \A i \in 1..Len(CallerSeries) : CallerSeries[i] \notin WriteVals

(* C1: NewADF stores a copy of the caller's series, never an alias: right  *)
(* after construction Series has the length and the elements of the input, *)
(* a caller write never changes an element of Series, and Run never        *)
(* changes an element of the caller's slice.                               *)
C1_SeriesIsCopy ==
    [][/\ (last'.op = "NewADF") =>
              /\ Len(mem'[adf'.Series]) = Len(CallerSeries)
              /\ \A i \in 1..Len(CallerSeries) :
                     mem'[adf'.Series][i] = CallerSeries[i]
       /\ (last'.op = "write") => mem'[adf.Series] = Series
       /\ IsRunStep => mem'[CallerAddr] = CallerSeries]_vars

C1_Witness ==
    /\ Constructed
    /\ last.op = "Run"
    /\ run.outcome = "ok"
    /\ run.mean.v # 0
    /\ ~NoWriteYet
    /\ \E i \in 1..Len(Series) : Series[i] # CallerSeries[i]

(* C2: the stored Lag is floor(cbrt(N)) when the lag argument is negative *)
(* and the argument itself otherwise; it is >= 0 in every state after     *)
(* construction, whatever Run and IsStationary calls follow.              *)
C2_LagNormalised ==
    Constructed =>
        LET N == Len(CallerSeries)
            L == adf.Lag
        IN  /\ L >= 0
            /\ call.lag >= 0 => L = call.lag
            /\ call.lag < 0 => (L * L * L <= N /\ N < (L + 1) * (L + 1) * (L + 1))

C2_Witness ==
    /\ Constructed
    /\ call.lag < 0
    /\ adf.Lag = 2
    /\ run.outcome = "ok"
    /\ last.op = "IsStationary"

(* C3: a threshold argument of 0 is stored as -3.45 and any other argument *)
(* unchanged, so PValueThreshold is never 0, and Run never changes it.     *)
C3_ThresholdDefault ==
    Constructed =>
        /\ call.pvalue = 0 => adf.PValueThreshold = -345
        /\ call.pvalue # 0 => adf.PValueThreshold = call.pvalue
        /\ adf.PValueThreshold # 0

C3_Witness ==
    /\ Constructed
    /\ call.pvalue = 0
    /\ adf.PValueThreshold = -345
    /\ run.outcome = "ok"
    /\ last.op = "Run"

(* C4: IsStationary returns true iff Statistic < PValueThreshold, strictly; *)
(* it changes no field and no element of Series, and two consecutive calls *)
(* return the same value.                                                  *)
C4_IsStationaryStrictPure ==
    [][(last'.op = "IsStationary") =>
           /\ last'.ret = (adf.Statistic < adf.PValueThreshold)
           /\ (adf.Statistic = adf.PValueThreshold) => ~last'.ret
           /\ adf' = adf
           /\ mem' = mem
           /\ (last.op = "IsStationary") => last'.ret = last.ret]_vars

C4_Witness ==
    /\ last.op = "IsStationary"
    /\ run.outcome = "ok"
    /\ adf.Statistic = adf.PValueThreshold
    /\ ~last.ret

(* C5 as stated: once Run has been called, another Run leaves every element *)
(* of Series unchanged and recomputes the same Statistic.                   *)
C5_SecondRunChangesNothing ==
    [][(IsRunStep /\ run.outcome # "none") =>
           /\ mem'[adf.Series] = Series
           /\ (run.outcome = "ok") => adf'.Statistic = adf.Statistic]_vars

(* C5 amended: the mean-subtraction step replaces every element s[i] by   *)
(* the rounded difference s[i] - m, m being the computed mean, and is     *)
(* skipped when m is 0; a Run that computes a mean of 0 leaves every      *)
(* element of Series unchanged and, after a completed Run, recomputes the *)
(* same Statistic.                                                        *)
C5_CentringStep ==
    [][IsRunStep =>
           LET s == Series
               m == run'.mean
           IN  /\ Len(mem'[adf.Series]) = Len(s)
               /\ (~m.nan /\ m.v # 0) =>
                      \A i \in 1..Len(s) : mem'[adf.Series][i] = FSub(s[i], m.v)
               /\ (~m.nan /\ m.v = 0) =>
                      /\ mem'[adf.Series] = s
                      /\ (run.outcome = "ok") => adf'.Statistic = adf.Statistic]_vars

C5_Witness ==
    /\ Constructed
    /\ last.op = "Run"
    /\ run.outcome = "ok"
    /\ ~run.mean.nan /\ run.mean.v = 0
    /\ NoWriteYet
    /\ Series # CallerSeries

(* C6: for 1 <= L <= len(s), laggedMatrix(s, L) has len(s) - L + 1 rows and *)
(* L columns, its entry at row i, column j is s[L - j - 1 + i], and every   *)
(* index it reads lies in 0..len(s)-1.                                      *)
C6_LaggedMatrixShape ==
    (run.outcome # "none" /\ 1 <= run.k /\ run.k <= Len(run.y)) =>
        LET s == run.y
            L == run.k
            z == run.z
        IN  /\ run.outcome # "panic:laggedMatrix"
            /\ (run.outcome = "ok") =>
                   /\ z.r = Len(s) - L + 1
                   /\ z.c = L
                   /\ z.at[<<0, 0>>] = s[(L - 1) + 1]
                   /\ \A i \in 0..(z.r - 1) : \A j \in 0..(z.c - 1) :
                          /\ 0 <= L - j - 1 + i
                          /\ L - j - 1 + i <= Len(s) - 1
                          /\ z.at[<<i, j>>] = s[(L - j - 1 + i) + 1]

C6_Witness ==
    /\ run.outcome = "ok"
    /\ run.k >= 2
    /\ run.k = Len(run.y)
    /\ run.z.r = 1
    /\ run.z.at[<<0, 0>>] # run.z.at[<<0, 1>>]

(* C7 as stated: when k > 1, design column j is column j - 1 of the lag *)
(* matrix, for every 1 <= j <= k - 1.                                    *)
C7_DesignFromColumnsBefore ==
    (run.outcome = "ok" /\ run.k > 1) =>
        \A j \in 1..(run.k - 1) : \A i \in 0..(run.design.r - 1) :
            run.design.at[<<i, j>> ] = run.z.at[<<i, j - 1>>]

(* C7 amended: when k > 1, design column j is column j of the lag matrix *)
(* built from the differenced series, for every 1 <= j <= k - 1 (columns *)
(* 1..k-1 of the lag matrix); when k = 1 the design is the single        *)
(* lagged-level column.                                                  *)
C7_DesignFromSameColumns ==
    (run.outcome = "ok") =>
        /\ run.design.c = run.k
        /\ \A j \in 1..(run.k - 1) : \A i \in 0..(run.design.r - 1) :
               run.design.at[<<i, j>>] = run.z.at[<<i, j>>]
        /\ (run.k = 1) =>
               \A i \in 0..(run.design.r - 1) :
                   run.design.at[<<i, 0>>] = Series[(run.k - 1 + i) + 1]

C7_Witness ==
    /\ run.outcome = "ok"
    /\ run.k = 3
    /\ \E i \in 0..(run.z.r - 1) :
           /\ run.z.at[<<i, 1>>] # run.z.at[<<i, 0>>]
           /\ run.z.at[<<i, 2>>] # run.z.at[<<i, 1>>]

(* C8: with s the centred series, y[i] = s[i+1] - s[i] and k = Lag + 1:  *)
(* the response is response[i] = y[k-1+i] = s[k+i] - s[k-1+i], design    *)
(* column 0 is s[k-1+i], and design column j, 1 <= j <= k-1, is          *)
(* y[k-1-j+i], an entry of column j of z and never of its column 0.      *)
C8_RegressionInputs ==
    (run.outcome = "ok") =>
        LET s == Series
            y == run.y
            k == adf.Lag + 1
            rows == run.design.r
        IN  /\ Len(y) = Len(s) - 1
            /\ \A i \in 0..(Len(y) - 1) : y[i + 1] = FSub(s[i + 2], s[i + 1])
            /\ Len(run.regressY) = rows
            /\ \A i \in 0..(rows - 1) :
                   /\ run.regressY[i + 1] = run.z.at[<<i, 0>>]
                   /\ run.regressY[i + 1] = y[(k - 1 + i) + 1]
                   /\ run.regressY[i + 1] = FSub(s[(k + i) + 1], s[(k - 1 + i) + 1])
                   /\ run.design.at[<<i, 0>>] = s[(k - 1 + i) + 1]
                   /\ \A j \in 1..(k - 1) :
                          /\ run.design.at[<<i, j>>] = y[(k - 1 - j + i) + 1]
                          /\ k - 1 - j + i # k - 1 + i

C8_Witness ==
    /\ run.outcome = "ok"
    /\ run.k = 2
    /\ run.design.r >= 2
    /\ \E i \in 1..Len(run.regressY) :
           /\ run.regressY[i] # 0
           /\ run.regressY[i] # run.design.at[<<i - 1, 1>>]

(* C9: with n = len(Series) - 1 and k = Lag + 1, Run reaches the solver   *)
(* exactly when len(Series) > Lag + 1; then z, the response, the level    *)
(* slice and the design all have len(Series) - Lag - 1 >= 1 rows and the  *)
(* design has k columns.  When len(Series) <= Lag + 1, Run aborts with    *)
(* the series already mean-centred and Statistic not assigned.            *)
C9_RunShapeOrAbort ==
    [][IsRunStep =>
           LET N == Len(Series)
               k == adf.Lag + 1
               rows == N - adf.Lag - 1
               r == run'
           IN  /\ (r.outcome = "ok") <=> (N > adf.Lag + 1)
               /\ (N > adf.Lag + 1) =>
                      /\ rows >= 1
                      /\ r.n - k + 1 = rows
                      /\ r.z.r = rows /\ r.z.c = k
                      /\ Len(r.regressY) = rows
                      /\ Len(r.xt1) = rows
                      /\ r.design.r = rows /\ r.design.c = k
               /\ (N <= adf.Lag + 1) =>
                      /\ rows <= 0
                      /\ adf' = adf
                      /\ Len(mem'[adf.Series]) = N
                      /\ (~r.mean.nan /\ r.mean.v # 0) =>
                             \A i \in 1..N :
                                 mem'[adf.Series][i] = FSub(Series[i], r.mean.v)]_vars

C9_Witness ==
    /\ Constructed
    /\ last.op = "Run"
    /\ run.outcome = "panic:laggedMatrix"
    /\ Len(Series) = adf.Lag + 1
    /\ run.mean.v # 0
    /\ NoWriteYet
    /\ Series # CallerSeries

(* C10: with the automatic lag, a series of length N >= 3 has N > Lag + 1 *)
(* and Run builds a design of N - Lag - 1 >= 1 rows; for N in {1, 2} the  *)
(* automatic lag is 1 and Run aborts; for N = 0 it is 0 and Run aborts in *)
(* the differencing.                                                      *)
C10_AutomaticLagRunnable ==
    (Constructed /\ call.lag < 0) =>
        LET N == Len(Series)
            ran == run.outcome # "none"
        IN  /\ (N >= 3) =>
                   /\ N > adf.Lag + 1
                   /\ ran => (run.outcome = "ok" /\ run.design.r = N - adf.Lag - 1
                              /\ run.design.r >= 1)
            /\ (N \in {1, 2}) =>
                   /\ adf.Lag = 1
                   /\ ~(N > adf.Lag + 1)
                   /\ ran => run.outcome = "panic:laggedMatrix"
            /\ (N = 0) =>
                   /\ adf.Lag = 0
                   /\ ran => run.outcome = "panic:diff"

C10_Witness ==
    /\ Constructed
    /\ call.lag < 0
    /\ Len(Series) = MaxLen
    /\ adf.Lag = 2
    /\ run.outcome = "ok"
    /\ run.design.r = MaxLen - 3

====
